---- MODULE Spec2Model ----
(***************************************************************************)
(* ClioBulk-X core engine (cliobulk-core/src/main.rs): the RAW decoder     *)
(* decode_raw, the filter chain apply_filters and the batch orchestrator   *)
(* main, which fans the input list over a rayon worker pool, numbers the   *)
(* items with an atomic counter and prints Progress records on stdout.     *)
(***************************************************************************)
EXTENDS Integers, Sequences, FiniteSets, TLC

VARIABLES
    mainpc,     \* position of main: "options", "inputs", "outdir", "loop", then
                \* "returned_err", "returned_ok" or "panicked"
    workers,    \* threads of the rayon pool (hardware parallelism)
    options,    \* the parsed ProcessOptions
    input_paths,\* Vec<String> of the batch, as path records
    total,      \* input_paths.len()
    counter,    \* the shared AtomicUsize
    pc,         \* per item: position of the for_each closure
    c,          \* per item: the value fetch_add returned
    res,        \* per item: result of the inner closure
    running,    \* items whose closure is on top of a pool thread's stack
    under,      \* per item: the item whose thread it borrowed (0: none)
    stdout,     \* the lines printed, in order
    files,      \* the output directory: path -> [state, by, image]
    raw,        \* decoder run: the RawImage handed to decode_raw
    decoded,    \* decoder run: what decode_raw produced
    fin,        \* filter run: the input image
    fopt,       \* filter run: the options
    fout        \* filter run: what apply_filters returned

vars == << mainpc, workers, options, input_paths, total, counter, pc,
           c, res, running, under, stdout, files, raw, decoded,
           fin, fopt, fout >>

batchVars == << mainpc, workers, options, input_paths, total, counter,
                pc, c, res, running, under, stdout, files >>
decodeVars == << raw, decoded >>
filterVars == << fin, fopt, fout >>

(***************************************************************************)
(* Bounds of the model.                                                    *)
(***************************************************************************)
MaxItems == 3
MaxWorkers == 2
MaxDim == 4
MaxPixels == 2

NoImg == [layout |-> "none"]
NoOptions == [unset |-> TRUE]

Min(a, b) == IF a < b THEN a ELSE b
Max(a, b) == IF a > b THEN a ELSE b
Clamp(v, lo, hi) == Max(lo, Min(v, hi))

(***************************************************************************)
(* decode_raw.  A RawImage is [valid, width, height, enc, data]; valid is  *)
(* whether rawloader::decode_file accepts the file.  Integer samples are   *)
(* u16; Float samples are kept in thousandths (1000 is 1.0).  The result   *)
(* is [status, ...]: "ok" with the image, "err" (anyhow error), or "panic".*)
(***************************************************************************)
U8 == 256

\* `x as u8` of a non-negative integer
AsU8(x) == x % U8

\* (f.clamp(0.0, 1.0) * 255.0) as u8, f in thousandths
FloatToU8(f) == (Clamp(f, 0, 1000) * 255) \div 1000

\* ((a + b) * 127.5).clamp(0.0, 255.0) as u8, a and b in thousandths
FloatGreenToU8(a, b) == Clamp((a + b) * 1275, 0, 2550000) \div 10000

Shr(x, n) == x \div (2 ^ n)

\* data[k] with Rust's bounds check: k is 0-based
InBounds(data, k) == k >= 0 /\ k < Len(data)

\* idx of output pixel (x, y): (y * 2) * width + (x * 2)
QuadIdx(width, x, y) == (y * 2) * width + (x * 2)

\* The four sample indices the loop body reads for output pixel (x, y).
QuadReads(width, x, y) ==
    LET idx == QuadIdx(width, x, y)
    IN  { idx, idx + 1, idx + width, idx + width + 1 }

\* Every index read while filling an out_w x out_h image.
AllReads(width, out_w, out_h) ==
    UNION { QuadReads(width, x, y) : x \in 0 .. out_w - 1, y \in 0 .. out_h - 1 }

IntegerPixel(data, width, x, y) ==
    LET idx == QuadIdx(width, x, y)
    IN  << AsU8(Shr(data[idx + 1], 8)),
           AsU8(Shr(data[idx + 2] + data[idx + width + 1], 9)),
           AsU8(Shr(data[idx + width + 2], 8)) >>

FloatPixel(data, width, x, y) ==
    LET idx == QuadIdx(width, x, y)
    IN  << FloatToU8(data[idx + 1]),
           FloatGreenToU8(data[idx + 2], data[idx + width + 1]),
           FloatToU8(data[idx + width + 2]) >>

\* width / 2 and height / 2
HalfDim(n) == n \div 2

\* par_chunks_exact_mut(chunk_size) asserts chunk_size != 0 and panics otherwise.
ChunksPanic(chunk_size) == chunk_size = 0

decode_raw(r) ==
    IF ~r.valid THEN [status |-> "err", msg |-> "decode"]
    ELSE
    LET width == r.width
        height == r.height
        out_w == HalfDim(width)
        out_h == HalfDim(height)
        reads == AllReads(width, out_w, out_h)
    IN  IF ChunksPanic(out_w * 3) THEN [status |-> "panic"]
        ELSE IF \E k \in reads : ~InBounds(r.data, k) THEN [status |-> "panic"]
        ELSE [status |-> "ok",
              image |-> [layout |-> "Rgb8", width |-> out_w, height |-> out_h,
                         pix |-> [n \in 1 .. out_w * out_h |->
                                    LET x == (n - 1) % out_w
                                        y == (n - 1) \div out_w
                                    IN  IF r.enc = "Integer"
                                        THEN IntegerPixel(r.data, width, x, y)
                                        ELSE FloatPixel(r.data, width, x, y)]],
              reads |-> reads]

\* Sample buffers of the frames: width * height samples.
IntegerSamples == << 0, 255, 256, 4660, 32768, 65535 >>
FloatSamples == << -500, 0, 300, 500, 1000, 1500 >>
SampleAt(enc, seed, k) ==
    IF enc = "Integer" THEN IntegerSamples[((k + seed) % Len(IntegerSamples)) + 1]
    ELSE FloatSamples[((k * seed + k) % Len(FloatSamples)) + 1]

RawImage(valid, width, height, enc, seed) ==
    [valid |-> valid, width |-> width, height |-> height, enc |-> enc,
     data |-> [k \in 1 .. width * height |-> SampleAt(enc, seed, k)]]

NoRaw == [valid |-> FALSE, width |-> 0, height |-> 0, enc |-> "Integer", data |-> << >>]
NoDecoded == [status |-> "none"]

DecodeInit ==
    /\ \E valid \in BOOLEAN, w \in 0 .. MaxDim, h \in 0 .. MaxDim,
          enc \in {"Integer", "Float"}, seed \in 0 .. 2 :
          raw = RawImage(valid, w, h, enc, seed)
    /\ decoded = NoDecoded

DecodeRaw ==
    /\ decoded.status = "none"
    /\ decoded' = decode_raw(raw)
    /\ UNCHANGED << raw, batchVars, filterVars >>

(***************************************************************************)
(* apply_filters.  An image is [layout, width, height, pix]; pix is the    *)
(* row-major sequence of pixels, <<v>> for Luma8 and <<r, g, b>> for Rgb8. *)
(* ProcessOptions keeps brightness, contrast and saturation in halves      *)
(* (contrast = 2 is 1.0), which f32 represents exactly, so the arithmetic  *)
(* below is the f32 arithmetic of the code for brightness and contrast;    *)
(* the luma weights 0.299, 0.587, 0.114 are taken as exact decimals.       *)
(***************************************************************************)
ProcessOptions(b, ct, s, at, dn) ==
    [brightness |-> b, contrast |-> ct, saturation |-> s,
     adaptive_threshold |-> at, denoise |-> dn]

NeutralOptions == ProcessOptions(0, 2, 2, FALSE, FALSE)

\* img.to_rgb8(): Luma8 is widened to three equal channels.
to_rgb8(im) ==
    IF im.layout = "Rgb8" THEN im
    ELSE [layout |-> "Rgb8", width |-> im.width, height |-> im.height,
          pix |-> [n \in 1 .. Len(im.pix) |-> << im.pix[n][1], im.pix[n][1], im.pix[n][1] >>]]

\* options.brightness != 0.0 || options.contrast != 1.0 || options.saturation != 1.0
ColorAdjustNeeded(o) == o.brightness # 0 \/ o.contrast # 2 \/ o.saturation # 2

\* v = (v - 128.0) * c + 128.0 + b; v.clamp(0.0, 255.0) as u8, with b = brightness * 255
AdjustChannel(v, o) ==
    Clamp((v - 128) * o.contrast + 256 + o.brightness * 255, 0, 510) \div 2

\* l = 0.299 r + 0.587 g + 0.114 b, in thousandths
Luma1000(p) == 299 * p[1] + 587 * p[2] + 114 * p[3]

\* (l + (ch - l) * s).clamp(0.0, 255.0) as u8
Saturate(ch, l1000, o) ==
    Clamp(2 * l1000 + (1000 * ch - l1000) * o.saturation, 0, 510000) \div 2000

AdjustPixel(p, o) ==
    LET q == << AdjustChannel(p[1], o), AdjustChannel(p[2], o), AdjustChannel(p[3], o) >>
        l == Luma1000(q)
    IN  IF o.saturation # 2
        THEN << Saturate(q[1], l, o), Saturate(q[2], l, o), Saturate(q[3], l, o) >>
        ELSE q

ColorAdjust(im, o) ==
    [im EXCEPT !.pix = [n \in 1 .. Len(im.pix) |-> AdjustPixel(im.pix[n], o)]]

\* Pixel (x, y), 0-based, with coordinates clamped to the image (padding by continuity).
PixelAt(im, x, y) ==
    im.pix[Clamp(y, 0, im.height - 1) * im.width + Clamp(x, 0, im.width - 1) + 1]

\* The median of a non-empty bag of values given as a sequence of odd length.
MedianOf(vals) ==
    LET half == (Len(vals) + 1) \div 2
    IN  CHOOSE m \in { vals[k] : k \in 1 .. Len(vals) } :
            /\ Cardinality({ k \in 1 .. Len(vals) : vals[k] < m }) < half
            /\ Cardinality({ k \in 1 .. Len(vals) : vals[k] <= m }) >= half

Offsets3 == << -1, 0, 1 >>

\* imageproc::filter::median_filter(&rgb, 1, 1): per channel, 3x3 neighbourhood.
median_filter(im) ==
    IF im.width = 0 \/ im.height = 0 THEN im
    ELSE [im EXCEPT !.pix =
            [n \in 1 .. Len(im.pix) |->
                LET x == (n - 1) % im.width
                    y == (n - 1) \div im.width
                IN  [ch \in 1 .. 3 |->
                        MedianOf([k \in 1 .. 9 |->
                            PixelAt(im, x + Offsets3[((k - 1) % 3) + 1],
                                        y + Offsets3[((k - 1) \div 3) + 1])[ch]])]]]

\* final_img.to_luma8(): image's Rgb -> Luma, (2126 r + 7152 g + 722 b) / 10000
to_luma8(im) ==
    IF im.layout = "Luma8" THEN im
    ELSE [layout |-> "Luma8", width |-> im.width, height |-> im.height,
          pix |-> [n \in 1 .. Len(im.pix) |->
                    << (2126 * im.pix[n][1] + 7152 * im.pix[n][2] + 722 * im.pix[n][3])
                          \div 10000 >>]]

\* The block radius passed to adaptive_threshold.
BlockRadius == 10

\* imageproc::contrast::adaptive_threshold(&luma, 10): white where the pixel is at
\* least the mean of its block, the block clipped to the image.
adaptive_threshold(im) ==
    [im EXCEPT !.pix =
        [n \in 1 .. Len(im.pix) |->
            LET x == (n - 1) % im.width
                y == (n - 1) \div im.width
                xs == Max(0, x - BlockRadius) .. Min(im.width - 1, x + BlockRadius)
                ys == Max(0, y - BlockRadius) .. Min(im.height - 1, y + BlockRadius)
                cells == { << i, j >> : i \in xs, j \in ys }
                sum == LET RECURSIVE S(_)
                           S(cs) == IF cs = {} THEN 0
                                    ELSE LET e == CHOOSE e \in cs : TRUE
                                         IN  PixelAt(im, e[1], e[2])[1] + S(cs \ {e})
                       IN  S(cells)
                mean == sum \div Cardinality(cells)
            IN  IF im.pix[n][1] >= mean THEN << 255 >> ELSE << 0 >>]]

DenoiseEnabled(o) == o.denoise

ThresholdEnabledMut(o) == TRUE
ThresholdEnabled(o) == o.adaptive_threshold

apply_filters(im, o) ==
    LET rgb == to_rgb8(im)
        adjusted == IF ColorAdjustNeeded(o) THEN ColorAdjust(rgb, o) ELSE rgb
        denoised == IF DenoiseEnabled(o) THEN median_filter(adjusted) ELSE adjusted
    IN  IF ThresholdEnabled(o) THEN adaptive_threshold(to_luma8(denoised)) ELSE denoised

\* Inputs of the filter runs: single-row images of 1 .. MaxPixels pixels.
PixVals == { 40, 200 }
RgbPixels == { << r, g, b >> : r \in PixVals, g \in PixVals, b \in PixVals }
LumaPixels == { << v >> : v \in PixVals }
RowImage(layout, pix) == [layout |-> layout, width |-> Len(pix), height |-> 1, pix |-> pix]
FilterImages ==
    UNION { { RowImage("Rgb8", p) : p \in [1 .. n -> RgbPixels] } \cup
            { RowImage("Luma8", p) : p \in [1 .. n -> LumaPixels] } : n \in 1 .. MaxPixels }
FilterOptions ==
    { ProcessOptions(b, ct, s, at, dn) :
        b \in { -1, 0, 1 }, ct \in { 1, 2, 4 }, s \in { 0, 2, 3 },
        at \in BOOLEAN, dn \in BOOLEAN }

FilterInit ==
    /\ fin \in FilterImages
    /\ fopt \in FilterOptions
    /\ fout = NoImg

ApplyFilters ==
    /\ fout = NoImg
    /\ fout' = apply_filters(fin, fopt)
    /\ UNCHANGED << fin, fopt, batchVars, decodeVars >>


(***************************************************************************)
(* The batch orchestrator, main.  The file system the batch runs against   *)
(* is fixed: five input paths, two of them with the same file name in      *)
(* different directories, one missing, two RAW files.                      *)
(***************************************************************************)
Path(dir, stem, ext) == [dir |-> dir, stem |-> stem, ext |-> ext]

PathAX == Path("/a", "x", "png")      \* a readable PNG
PathBX == Path("/b", "x", "png")      \* another readable PNG, same file name
PathGone == Path("/a", "gone", "png") \* no such file
PathRaw == Path("/a", "r", "DNG")     \* a 4 x 2 RAW frame
PathNarrow == Path("/a", "n", "dng")  \* a 1 x 2 RAW frame
Paths == { PathAX, PathBX, PathGone, PathRaw, PathNarrow }

\* What the file at a path holds.
Content(p) ==
    CASE p = PathAX -> [kind |-> "std",
                        image |-> RowImage("Rgb8", << << 40, 200, 40 >>, << 200, 40, 40 >> >>)]
      [] p = PathBX -> [kind |-> "std", image |-> RowImage("Luma8", << << 200 >> >>)]
      [] p = PathRaw -> [kind |-> "raw", frame |-> RawImage(TRUE, 4, 2, "Integer", 1)]
      [] p = PathNarrow -> [kind |-> "raw", frame |-> RawImage(TRUE, 1, 2, "Integer", 0)]
      [] OTHER -> [kind |-> "missing"]

\* path.file_name()...unwrap_or_else(|| "unknown")
FileName(p) == IF p.stem = "" /\ p.ext = "" THEN "unknown" ELSE p.stem \o "." \o p.ext

\* to_lowercase() of the extensions in use
Lower(ext) == CASE ext = "DNG" -> "dng" [] ext = "PNG" -> "png" [] OTHER -> ext

\* name_lower.ends_with(".arw") || ... || name_lower.ends_with(".dng")
IsRawName(p) == Lower(p.ext) \in { "arw", "cr2", "nef", "dng" }

\* output_dir.join(format!("processed_{}.jpg", name))
OutPath(p) == "processed_" \o FileName(p) \o ".jpg"

\* decode_raw(&path_str): rawloader::decode_file, then the demosaic
DecodeRawFile(p) ==
    LET f == Content(p)
    IN  IF f.kind = "raw" THEN decode_raw(f.frame) ELSE decode_raw(NoRaw)

\* image::open(path)
ImageOpen(p) ==
    LET f == Content(p)
    IN  IF f.kind = "std" THEN [status |-> "ok", image |-> f.image]
        ELSE [status |-> "err", msg |-> "open"]

\* The decoder the closure selects by extension.
DecodeItem(p) == IF IsRawName(p) THEN DecodeRawFile(p) ELSE ImageOpen(p)

\* Progress records, one stdout line each.  progress is (c / total) * 100 kept as the
\* pair <<100 * c, total>> (numerator, denominator); the final record has 100.0.
Progress(progress, current_file, status) ==
    [progress |-> progress, current_file |-> current_file, status |-> status]
Percent(cnt, n) == << 100 * cnt, n >>
Hundred == << 100, 1 >>

Items == 1 .. Len(input_paths)
InputLists(lo) == UNION { [1 .. n -> Paths] : n \in lo .. MaxItems }
\* The options JSON the batches are run with: every stage of the filter chain is on.
BatchOptions == { ProcessOptions(1, 4, 0, TRUE, TRUE) }

BatchInit ==
    /\ mainpc = "options"
    /\ workers \in 1 .. MaxWorkers
    /\ options = NoOptions
    /\ input_paths = << >>
    /\ total = 0
    /\ counter = 0
    /\ pc = << >>
    /\ c = << >>
    /\ res = << >>
    /\ running = {}
    /\ under = << >>
    /\ stdout = << >>
    /\ files = << >>

\* The ? operator in main: main returns Err(e).
Fatal == mainpc' = "returned_err"

Exited == mainpc \in { "returned_err", "returned_ok", "panicked" }

\* The exit status of the process: 0 when main returns Ok(()), 1 when it returns an
\* Err, 101 when it panics.
ExitCode ==
    CASE mainpc = "returned_ok" -> 0
      [] mainpc = "returned_err" -> 1
      [] mainpc = "panicked" -> 101

\* let options: ProcessOptions = serde_json::from_str(&args.options)?;
ParseOptions ==
    /\ mainpc = "options"
    /\ \/ Fatal /\ UNCHANGED options
       \/ \E o \in BatchOptions :
             /\ options' = o
             /\ mainpc' = "inputs"
    /\ UNCHANGED << workers, input_paths, total, counter, pc, c, res, running,
                    under, stdout, files, raw, decoded, fin, fopt, fout >>

\* The manifest branch (any JSON array, also []) or the comma-split branch (at least
\* one element); then total and counter.
ResolveInputs ==
    /\ mainpc = "inputs"
    /\ \E form \in { "manifest", "bad_manifest", "list" } :
          IF form = "bad_manifest"
          THEN Fatal /\ UNCHANGED << input_paths, total, counter, pc, c, res, under >>
          ELSE \E l \in InputLists(IF form = "manifest" THEN 0 ELSE 1) :
                  /\ input_paths' = l
                  /\ total' = Len(l)
                  /\ counter' = 0
                  /\ pc' = [i \in 1 .. Len(l) |-> "queued"]
                  /\ c' = [i \in 1 .. Len(l) |-> -1]
                  /\ res' = [i \in 1 .. Len(l) |-> "none"]
                  /\ under' = [i \in 1 .. Len(l) |-> 0]
                  /\ mainpc' = "outdir"
    /\ UNCHANGED << workers, options, running, stdout, files, raw, decoded, fin, fopt, fout >>

\* if !output_dir.exists() { std::fs::create_dir_all(&output_dir)?; }
EnsureOutputDir ==
    /\ mainpc = "outdir"
    /\ \E dir \in { "exists", "created", "failed" } :
          IF dir = "failed"
          THEN Fatal
          ELSE mainpc' = "loop"
    /\ UNCHANGED << workers, options, input_paths, total, counter, pc, c, res,
                    running, under, stdout, files, raw, decoded, fin, fopt, fout >>

\* A pool thread is inside a rayon parallel region of item j (the row loop of
\* decode_raw, the pixel loop of apply_filters): while it waits there it may pick up
\* another queued item.
InParallelRegion(j) ==
    /\ pc[j] = "work"
    /\ DecodeItem(input_paths[j]).status = "ok"
    /\ IsRawName(input_paths[j]) \/ ColorAdjustNeeded(options)

Panicked == \E i \in Items : pc[i] = "panicked"

\* The closure ends for item i: its thread goes back to the item it was borrowed from.
Release(i) ==
    /\ running' = IF under[i] = 0 THEN running \ { i }
                  ELSE (running \ { i }) \cup { under[i] }
    /\ under' = [under EXCEPT ![i] = 0]

FetchAddMut(cnt) == cnt
FetchAdd(cnt) == cnt + 1

\* let name = ...; let c = counter.fetch_add(1, Ordering::SeqCst);
Dispatch(i) ==
    /\ mainpc = "loop"
    /\ pc[i] = "queued"
    /\ \/ /\ Cardinality(running) < workers
          /\ running' = running \cup { i }
          /\ UNCHANGED under
       \/ \E j \in running :
             /\ InParallelRegion(j)
             /\ running' = (running \ { j }) \cup { i }
             /\ under' = [under EXCEPT ![i] = j]
    /\ c' = [c EXCEPT ![i] = counter]
    /\ counter' = FetchAdd(counter)
    /\ pc' = [pc EXCEPT ![i] = "fetched"]
    /\ UNCHANGED << mainpc, workers, options, input_paths, total, res,
                    stdout, files, raw, decoded, fin, fopt, fout >>

\* println!("{}", serde_json::to_string(&prog).unwrap());
PrintProcessing(i) ==
    /\ i \in running
    /\ pc[i] = "fetched"
    /\ stdout' = Append(stdout, Progress(Percent(c[i], total), FileName(input_paths[i]),
                                         "processing"))
    /\ pc' = [pc EXCEPT ![i] = "work"]
    /\ UNCHANGED << mainpc, workers, options, input_paths, total, counter, c,
                    res, running, under, files, raw, decoded, fin, fopt, fout >>

WriteFile(path, st, i, im) ==
    [q \in DOMAIN files \cup { path } |->
        IF q = path THEN [state |-> st, by |-> i, image |-> im] ELSE files[q]]

\* The outcomes of img.save(out_path): File::create(path)? truncates or creates the
\* file, then the JPEG encoder writes through it; either step may fail.
SaveOutcomes == { "ok", "create", "write" }

ErrorStatusMut(e) == "processing"
\* status: format!("error: {}", e)
ErrorStatus(e) == "error: " \o e

\* The inner closure (decode, apply_filters, save) and the report of its Err: a panic
\* of decode_raw leaves the for_each closure by unwinding; an Err is printed as an
\* error record carrying the percentage of the item's "processing" record.
Work(i) ==
    /\ i \in running
    /\ pc[i] = "work"
    /\ LET d == DecodeItem(input_paths[i])
           name == FileName(input_paths[i])
           out_path == OutPath(input_paths[i])
           filtered == apply_filters(d.image, options)
           err_prog(e) == Progress(Percent(c[i], total), name, ErrorStatus(e))
       IN  CASE d.status = "panic" ->
                  /\ pc' = [pc EXCEPT ![i] = "panicked"]
                  /\ UNCHANGED << res, files, stdout >>
             [] d.status = "err" ->
                  /\ res' = [res EXCEPT ![i] = d.msg]
                  /\ stdout' = Append(stdout, err_prog(d.msg))
                  /\ pc' = [pc EXCEPT ![i] = "done"]
                  /\ UNCHANGED files
             [] d.status = "ok" ->
                  /\ pc' = [pc EXCEPT ![i] = "done"]
                  /\ \E outcome \in SaveOutcomes :
                        CASE outcome = "ok" ->
                               /\ files' = WriteFile(out_path, "complete", i, filtered)
                               /\ res' = [res EXCEPT ![i] = "ok"]
                               /\ UNCHANGED stdout
                          [] outcome = "create" ->
                               /\ res' = [res EXCEPT ![i] = "create"]
                               /\ stdout' = Append(stdout, err_prog("create"))
                               /\ UNCHANGED files
                          [] outcome = "write" ->
                               /\ files' = WriteFile(out_path, "partial", i, NoImg)
                               /\ res' = [res EXCEPT ![i] = "write"]
                               /\ stdout' = Append(stdout, err_prog("write"))
    /\ Release(i)
    /\ UNCHANGED << mainpc, workers, options, input_paths, total, counter, c,
                    raw, decoded, fin, fopt, fout >>

\* bridge_producer_consumer with rayon's LengthSplitter (min length 1, the split
\* budget starts at the number of threads and is halved at every split): a range of
\* two or more items is split in the middle while budget is left, and what remains is
\* folded by one sequential loop.  A stolen task only gets more budget, so these are
\* the largest sequential parts.  TRUE when items i and j fall in one such part.
RECURSIVE SamePart(_, _, _, _, _)
SamePart(i, j, lo, hi, splits) ==
    LET len == hi - lo + 1
        mid == lo + (len \div 2)
    IN  IF len \div 2 >= 1 /\ splits > 0
        THEN \/ i < mid /\ j < mid /\ SamePart(i, j, lo, mid - 1, splits \div 2)
             \/ i >= mid /\ j >= mid /\ SamePart(i, j, mid, hi, splits \div 2)
        ELSE TRUE

\* Item j follows item i in one sequential loop of the for_each.
SameSequentialPart(i, j) ==
    i < j /\ SamePart(i, j, 1, Len(input_paths), workers)

\* A panic unwinds the sequential part of the for_each the panicking closure ran in:
\* items of that part not yet started are dropped without running.
Skip(i) ==
    /\ mainpc = "loop"
    /\ pc[i] = "queued"
    /\ \E k \in Items : pc[k] = "panicked" /\ SameSequentialPart(k, i)
    /\ pc' = [pc EXCEPT ![i] = "skipped"]
    /\ UNCHANGED << mainpc, workers, options, input_paths, total, counter, c,
                    res, running, under, stdout, files, raw, decoded, fin, fopt, fout >>

\* for_each returns once every item is finished; a panic of a closure is resumed in
\* main (exit status 101), otherwise main prints the final record and returns Ok(()).
Join ==
    /\ mainpc = "loop"
    /\ \A i \in Items : pc[i] \in { "done", "panicked", "skipped" }
    /\ IF Panicked
       THEN /\ mainpc' = "panicked"
            /\ UNCHANGED stdout
       ELSE /\ mainpc' = "returned_ok"
            /\ stdout' = Append(stdout, Progress(Hundred, "Done", "complete"))
    /\ UNCHANGED << workers, options, input_paths, total, counter, pc, c, res,
                    running, under, files, raw, decoded, fin, fopt, fout >>

Next ==
    \/ ParseOptions
    \/ ResolveInputs
    \/ EnsureOutputDir
    \/ \E i \in Items : Dispatch(i)
    \/ \E i \in Items : PrintProcessing(i)
    \/ \E i \in Items : Work(i)
    \/ \E i \in Items : Skip(i)
    \/ Join

Init ==
    /\ BatchInit
    /\ raw = NoRaw /\ decoded = NoDecoded
    /\ fin = NoImg /\ fopt = NeutralOptions /\ fout = NoImg

Spec == Init /\ [][Next]_vars

InitDecode ==
    /\ DecodeInit
    /\ BatchInit /\ workers = 1
    /\ fin = NoImg /\ fopt = NeutralOptions /\ fout = NoImg

NextDecode == DecodeRaw

SpecDecode == InitDecode /\ [][NextDecode]_vars

InitFilter ==
    /\ FilterInit
    /\ BatchInit /\ workers = 1
    /\ raw = NoRaw /\ decoded = NoDecoded

NextFilter == ApplyFilters

SpecFilter == InitFilter /\ [][NextFilter]_vars

(***************************************************************************)
(* Reading the run: the records on stdout and the output directory.        *)
(***************************************************************************)
BatchEnded == mainpc \in { "returned_ok", "panicked" }

Lines == 1 .. Len(stdout)
IsProcessing(r) == r.status = "processing"
IsComplete(r) == r.status = "complete"
IsError(r) == ~IsProcessing(r) /\ ~IsComplete(r)
ProcessingLines == { k \in Lines : IsProcessing(stdout[k]) }
ErrorLines == { k \in Lines : IsError(stdout[k]) }
CompleteLines == { k \in Lines : IsComplete(stdout[k]) }

\* The lines item i printed: its file name and its percentage.
LinesOf(i) ==
    { k \in Lines : /\ c[i] >= 0
                    /\ stdout[k].current_file = FileName(input_paths[i])
                    /\ stdout[k].progress = Percent(c[i], total) }
Finished(i) == pc[i] = "done"
Failed(i) == res[i] \notin { "none", "ok" }
Succeeded(i) == res[i] = "ok"
Unreadable(i) == res[i] \in { "open", "decode" }
FilesPresent == { q \in DOMAIN files : files[q].state # "absent" }

\* C1: a run that reaches the per-item loop ends with exactly one record
\* (100.0, "Done", "complete"), printed after every item has finished and so after
\* every "processing" and "error: ..." record of the batch.
C1_OneCompleteAfterAll ==
    /\ \A k \in CompleteLines :
          /\ stdout[k] = Progress(Hundred, "Done", "complete")
          /\ \A i \in Items : Finished(i)
          /\ \A m \in ProcessingLines \cup ErrorLines : m < k
    /\ BatchEnded => Cardinality(CompleteLines) = 1
    /\ ~BatchEnded => CompleteLines = {}

\* One item is an unreadable path and every other item succeeded, and main returned.
OneUnreadableRestOk ==
    /\ mainpc = "returned_ok"
    /\ \E k \in Items : Unreadable(k) /\ \A i \in Items \ { k } : Succeeded(i)

C3_FailureIsolation ==
    /\ \A i \in Items :
          /\ Cardinality(LinesOf(i) \cap ProcessingLines) <= 1
          /\ (Finished(i) /\ Failed(i)) =>
                /\ Cardinality(LinesOf(i) \cap ErrorLines) = 1
                /\ Cardinality(LinesOf(i) \cap ProcessingLines) = 1
          /\ (Finished(i) /\ ~Failed(i)) => LinesOf(i) \cap ErrorLines = {}
    /\ BatchEnded =>
          /\ mainpc = "returned_ok"
          /\ \A i \in Items : Finished(i) /\ res[i] # "none"

\* C4: the counter is incremented exactly once per item before its work: the items
\* see the pairwise distinct counts 0 .. N - 1, every percentage k / N * 100 is printed
\* in exactly one "processing" record, and the counter is N when the batch ends.
C4_CounterExact ==
    /\ \A i, j \in Items : (i # j /\ c[i] >= 0 /\ c[j] >= 0) => c[i] # c[j]
    /\ BatchEnded =>
          /\ counter = total
          /\ { c[i] : i \in Items } = 0 .. total - 1
          /\ \A k \in 0 .. total - 1 :
                Cardinality({ m \in ProcessingLines :
                                stdout[m].progress = Percent(k, total) }) = 1

Wrote(i) == res[i] \in { "ok", "write" }

\* C5: every item writes its own output file processed_<file name>.jpg: no two items
\* of a batch write the same output path.
C5_DistinctOutputs ==
    \A i, j \in Items :
        (i # j /\ Wrote(i) /\ Wrote(j)) => OutPath(input_paths[i]) # OutPath(input_paths[j])

\* C6: a non-zero exit status is a fatal error before the batch, with no counter
\* increment, no record and no output file in that run; once the per-item loop has
\* begun the exit status is zero.
C6_ExitStatus ==
    /\ (Exited /\ ExitCode # 0) =>
          /\ mainpc = "returned_err"
          /\ counter = 0
          /\ stdout = << >>
          /\ FilesPresent = {}
          /\ \A i \in Items : pc[i] = "queued"
    /\ BatchEnded => ExitCode = 0

\* C7: nothing, complete or partial, is left in the output directory by an item whose
\* decode, filter, encode or write failed.
C7_NoFileOfFailedItem ==
    \A q \in FilesPresent : ~Failed(files[q].by)

\* C8: decode_raw returns an RGB buffer of floor(width / 2) x floor(height / 2) pixels
\* or an error, for every width and height, and every sample index it reads lies
\* inside the width * height buffer.
C8_DecodeDims ==
    decoded.status # "none" =>
        /\ decoded.status \in { "ok", "err" }
        /\ decoded.status = "ok" =>
              /\ decoded.image.layout = "Rgb8"
              /\ decoded.image.width = raw.width \div 2
              /\ decoded.image.height = raw.height \div 2
              /\ Len(decoded.image.pix) = (raw.width \div 2) * (raw.height \div 2)
              /\ \A k \in decoded.reads : k >= 0 /\ k < raw.width * raw.height

\* C9 as stated: with brightness 0, contrast 1, saturation 1 and both toggles off,
\* apply_filters returns its input, pixel values and channel layout, for RGB and for
\* single-channel buffers.
C9_Original ==
    (fout # NoImg /\ fopt = NeutralOptions) => fout = fin

\* C9 amended: with the neutral options apply_filters returns the input converted to
\* 3-channel RGB: an RGB buffer comes back unchanged, a single-channel buffer comes
\* back with the same dimensions and every pixel v as (v, v, v).
C9_NeutralIsRgbConversion ==
    (fout # NoImg /\ fopt = NeutralOptions) =>
        /\ fout.layout = "Rgb8"
        /\ fout.width = fin.width /\ fout.height = fin.height
        /\ Len(fout.pix) = Len(fin.pix)
        /\ fin.layout = "Rgb8" => fout = fin
        /\ fin.layout = "Luma8" =>
              \A n \in 1 .. Len(fin.pix) :
                  fout.pix[n] = << fin.pix[n][1], fin.pix[n][1], fin.pix[n][1] >>

C9_Witness ==
    /\ fout # NoImg
    /\ fopt = NeutralOptions
    /\ fin.layout = "Luma8"
    /\ Len(fin.pix) = 2
    /\ fin.pix[1] # fin.pix[2]

\* C10: with a single worker the "processing" records are printed in strictly
\* increasing order of percentage; with two or more workers and two or more items a
\* record with a higher count can be printed before one with a lower count.
C10_SingleWorkerIncreasing ==
    workers = 1 =>
        \A k, m \in ProcessingLines :
            k < m => stdout[k].progress[1] < stdout[m].progress[1]

C10_OutOfOrderReached ==
    /\ workers >= 2
    /\ total >= 2
    /\ \E k, m \in ProcessingLines :
          k < m /\ stdout[k].progress[1] > stdout[m].progress[1]

====
